---- MODULE Spec2Model ----
(***************************************************************************)
(* The Figma MCP plugin: the UI page's WebSocket transport (ui.html) and   *)
(* the command dispatcher figma.ui.onmessage (plugin/src/code.ts).         *)
(***************************************************************************)
EXTENDS Integers, Sequences, FiniteSets, TLC

(***************************************************************************)
(* Bounds of the model.                                                    *)
(***************************************************************************)
\* Payloads (commands and malformed texts) the server sends in one behaviour,
\* under the specifications with a small menu of commands.
MaxPayloads == 2
\* The same, under the specifications with a wide menu of commands.
MaxWidePayloads == 1
\* WebSocket objects alive at once.
MaxSockets == 2

(***************************************************************************)
(* JavaScript values, tagged by typeof.                                    *)
(***************************************************************************)
Undefined == [t |-> "undefined"]
Null == [t |-> "null"]
Num(n) == [t |-> "number", v |-> n]
Str(s) == [t |-> "string", v |-> s]
Obj(r) == [t |-> "object", v |-> r]
Arr(s) == [t |-> "array", v |-> s]
EmptyRecord == [k \in {} |-> Undefined]

\* ToBoolean, as `||`, `!` and `if` apply it.
Truthy(v) ==
  CASE v.t = "undefined" -> FALSE
    [] v.t = "null" -> FALSE
    [] v.t = "number" -> v.v # 0
    [] v.t = "string" -> v.v # ""
    [] OTHER -> TRUE

\* Property read o[k] of an object; a key the object lacks reads undefined.
Get(o, k) == IF o.t = "object" /\ k \in DOMAIN o.v THEN o.v[k] ELSE Undefined

\* The object without the keys ks (rest destructuring).
Without(o, ks) ==
  IF o.t = "object" THEN Obj([k \in (DOMAIN o.v) \ ks |-> o.v[k]])
  ELSE Obj(EmptyRecord)

(***************************************************************************)
(* JSON text, as the sequence of its lexical tokens.                       *)
(***************************************************************************)
LBrace == [k |-> "{"]
RBrace == [k |-> "}"]
LBracket == [k |-> "["]
RBracket == [k |-> "]"]
Colon == [k |-> ":"]
Comma == [k |-> ","]
NumTok(n) == [k |-> "num", n |-> n]
StrTok(s) == [k |-> "str", s |-> s]
NullTok == [k |-> "null"]
BoolTok(b) == [k |-> "bool", b |-> b]
\* A character sequence that is no JSON token.
Garbage == [k |-> "garbage"]

\* The keys of record r whose value JSON.stringify writes, in a fixed order.
RECURSIVE KeyOrder(_)
KeyOrder(ks) ==
  IF ks = {} THEN <<>>
  ELSE LET k == CHOOSE x \in ks : TRUE IN <<k>> \o KeyOrder(ks \ {k})

RECURSIVE JSONStringify(_)
RECURSIVE StringifyMembers(_, _)
RECURSIVE StringifyElements(_, _)
\* JSON.stringify: a key whose value is undefined is left out; an undefined
\* array element is written null.
JSONStringify(v) ==
  CASE v.t = "number" -> <<NumTok(v.v)>>
    [] v.t = "string" -> <<StrTok(v.v)>>
    [] v.t = "null" -> <<NullTok>>
    [] v.t = "undefined" -> <<NullTok>>
    [] v.t = "boolean" -> <<BoolTok(v.v)>>
    [] v.t = "array" -> <<LBracket>> \o StringifyElements(v.v, 1) \o <<RBracket>>
    [] v.t = "object" ->
         <<LBrace>>
           \o StringifyMembers(v.v, KeyOrder({k \in DOMAIN v.v : v.v[k] # Undefined}))
           \o <<RBrace>>

StringifyMembers(r, ks) ==
  IF ks = <<>> THEN <<>>
  ELSE <<StrTok(Head(ks)), Colon>> \o JSONStringify(r[Head(ks)])
         \o (IF Len(ks) > 1 THEN <<Comma>> ELSE <<>>)
         \o StringifyMembers(r, Tail(ks))

StringifyElements(s, i) ==
  IF i > Len(s) THEN <<>>
  ELSE JSONStringify(s[i])
         \o (IF i < Len(s) THEN <<Comma>> ELSE <<>>)
         \o StringifyElements(s, i + 1)

ParseFail == [ok |-> FALSE]
ParseOk(v, next) == [ok |-> TRUE, val |-> v, next |-> next]

RECURSIVE ParseValue(_, _)
RECURSIVE ParseMembers(_, _, _)
RECURSIVE ParseElements(_, _, _)
\* The JSON value that starts at token i, and the place after it.
ParseValue(toks, i) ==
  IF i > Len(toks) THEN ParseFail
  ELSE LET tk == toks[i] IN
    CASE tk.k = "num" -> ParseOk(Num(tk.n), i + 1)
      [] tk.k = "str" -> ParseOk(Str(tk.s), i + 1)
      [] tk.k = "null" -> ParseOk(Null, i + 1)
      [] tk.k = "bool" -> ParseOk([t |-> "boolean", v |-> tk.b], i + 1)
      [] tk.k = "{" ->
           IF i + 1 <= Len(toks) /\ toks[i + 1].k = "}"
           THEN ParseOk(Obj(EmptyRecord), i + 2)
           ELSE ParseMembers(toks, i + 1, EmptyRecord)
      [] tk.k = "[" ->
           IF i + 1 <= Len(toks) /\ toks[i + 1].k = "]"
           THEN ParseOk(Arr(<<>>), i + 2)
           ELSE ParseElements(toks, i + 1, <<>>)
      [] OTHER -> ParseFail

\* key : value, then either , and more members or the closing brace.
ParseMembers(toks, i, acc) ==
  IF i + 1 > Len(toks) \/ toks[i].k # "str" \/ toks[i + 1].k # ":" THEN ParseFail
  ELSE LET r == ParseValue(toks, i + 2) IN
    IF ~r.ok \/ r.next > Len(toks) THEN ParseFail
    ELSE LET key == toks[i].s
             acc2 == [k \in (DOMAIN acc) \cup {key} |->
                        IF k = key THEN r.val ELSE acc[k]]
         IN CASE toks[r.next].k = "}" -> ParseOk(Obj(acc2), r.next + 1)
              [] toks[r.next].k = "," -> ParseMembers(toks, r.next + 1, acc2)
              [] OTHER -> ParseFail

ParseElements(toks, i, acc) ==
  LET r == ParseValue(toks, i) IN
    IF ~r.ok \/ r.next > Len(toks) THEN ParseFail
    ELSE CASE toks[r.next].k = "]" -> ParseOk(Arr(Append(acc, r.val)), r.next + 1)
           [] toks[r.next].k = "," -> ParseElements(toks, r.next + 1, Append(acc, r.val))
           [] OTHER -> ParseFail

\* JSON.parse: the value, or a SyntaxError when the text is no single JSON value.
JSONParse(toks) ==
  LET r == ParseValue(toks, 1) IN
    IF r.ok /\ r.next = Len(toks) + 1
    THEN [ok |-> TRUE, val |-> r.val]
    ELSE [ok |-> FALSE]

(***************************************************************************)
(* The host document: figma.currentPage, its nodes and the paint styles.   *)
(* A node is the record of the properties it exposes: `'fills' in node` is *)
(* "fills" \in DOMAIN node.  doc.nodes holds the nodes in creation order,  *)
(* doc.selection the indices of the selected ones.                         *)
(***************************************************************************)
True == [t |-> "boolean", v |-> TRUE]
False == [t |-> "boolean", v |-> FALSE]

\* String(v), as a template literal applies it.
String(v) ==
  CASE v.t = "undefined" -> "undefined"
    [] v.t = "null" -> "null"
    [] v.t = "number" -> ToString(v.v)
    [] v.t = "string" -> v.v
    [] v.t = "boolean" -> IF v.v THEN "true" ELSE "false"
    [] v.t = "array" -> "[array]"
    [] OTHER -> "[object Object]"

RGB(r, g, b) == Obj([r |-> Num(r), g |-> Num(g), b |-> Num(b)])
Red == RGB(1, 0, 0)
Blue == RGB(0, 0, 1)
Black == RGB(0, 0, 0)
SolidPaint(color) == Obj([type |-> Str("SOLID"), color |-> color])
GradientPaint(kind) == Obj([type |-> Str(kind), gradientStops |-> Arr(<<>>)])

NodeId(i) == "1:" \o ToString(i)
StyleId(i) == "S:" \o ToString(i)

\* What figma.createRectangle() returns.
NewRectangle(i) ==
  [id |-> Str(NodeId(i)), type |-> Str("RECTANGLE"), name |-> Str("Rectangle"),
   visible |-> True, locked |-> False,
   width |-> Num(100), height |-> Num(100), x |-> Num(0), y |-> Num(0),
   fills |-> Arr(<<SolidPaint(Black)>>), strokes |-> Arr(<<>>),
   strokeWeight |-> Num(1), effects |-> Arr(<<>>),
   constraints |-> Obj([horizontal |-> Str("MIN"), vertical |-> Str("MIN")])]

\* What figma.createText() returns.
NewText(i) ==
  [id |-> Str(NodeId(i)), type |-> Str("TEXT"), name |-> Str("Text"),
   visible |-> True, locked |-> False,
   width |-> Num(0), height |-> Num(0), x |-> Num(0), y |-> Num(0),
   fills |-> Arr(<<SolidPaint(Black)>>), strokes |-> Arr(<<>>),
   strokeWeight |-> Num(1), effects |-> Arr(<<>>), characters |-> Str(""),
   constraints |-> Obj([horizontal |-> Str("MIN"), vertical |-> Str("MIN")])]

\* A slide row: a scene node that has no paints and is not exportable.
NewSlideRow(i) ==
  [id |-> Str(NodeId(i)), type |-> Str("SLIDE_ROW"), name |-> Str("Row"),
   visible |-> True, locked |-> False, children |-> <<>>]

ViewportCenter == [x |-> Num(50), y |-> Num(50)]

EmptyDoc ==
  [nodes |-> <<>>, selection |-> <<>>, styles |-> <<>>, center |-> ViewportCenter]

\* Replace node i's property k.
SetProp(d, i, k, v) ==
  [d EXCEPT !.nodes[i] = [p \in (DOMAIN d.nodes[i]) \cup {k} |->
                            IF p = k THEN v ELSE d.nodes[i][p]]]

\* The host's check of a paint handed to a fills / strokes / paints setter.
IsRGB(c) ==
  /\ c.t = "object"
  /\ \A k \in {"r", "g", "b"} : k \in DOMAIN c.v /\ c.v[k].t = "number"

ValidPaint(p) ==
  /\ p.t = "object"
  /\ "type" \in DOMAIN p.v
  /\ p.v.type.t = "string"
  /\ \/ p.v.type.v = "SOLID" /\ IsRGB(Get(p, "color"))
     \/ p.v.type.v \in {"GRADIENT_LINEAR", "GRADIENT_RADIAL"}
          /\ Get(p, "gradientStops").t = "array"

ValidPaints(a) == a.t = "array" /\ \A i \in 1..Len(a.v) : ValidPaint(a.v[i])

\* string.startsWith('GRADIENT') over the paint type names.
StartsWithGradient(s) ==
  s \in {"GRADIENT", "GRADIENT_LINEAR", "GRADIENT_RADIAL", "GRADIENT_ANGULAR",
         "GRADIENT_DIAMOND"}

\* string.toUpperCase() over the export format spellings.
ToUpperCase(s) ==
  CASE s \in {"png", "Png", "PNG"} -> "PNG"
    [] s \in {"jpg", "JPG"} -> "JPG"
    [] s \in {"svg", "SVG"} -> "SVG"
    [] s \in {"pdf", "PDF"} -> "PDF"
    [] s \in {"gif", "GIF"} -> "GIF"
    [] OTHER -> s

Map(f(_), s) == [i \in 1..Len(s) |-> f(s[i])]

\* JavaScript's === on the values the model compares (primitives).
StrictEq(a, b) == a.t = b.t /\ (a.t \in {"undefined", "null"} \/ a.v = b.v)
Is(v, s) == v.t = "string" /\ v.v = s

\* The outcome of a host call or helper: the document after it, and the
\* message of the Error it threw, if it threw.
Done(d) == [ok |-> TRUE, doc |-> d]
Failed(d, m) == [ok |-> FALSE, doc |-> d, message |-> m]

\* The host's setter of node i's paint list k ("fills" / "strokes"): a node
\* object is not extensible, and the host validates the paints.
AssignPaints(d, i, k, paints) ==
  IF k \notin DOMAIN d.nodes[i]
  THEN Failed(d, "Cannot add property " \o k \o ", object is not extensible")
  ELSE IF ~ValidPaints(paints)
  THEN Failed(d, "in set_" \o k \o ": validation failed")
  ELSE Done(SetProp(d, i, k, paints))

\* Array.isArray(node[k]) ? Array.from(node[k]) : []
PaintsOf(node, k) ==
  IF k \in DOMAIN node /\ node[k].t = "array" THEN node[k].v ELSE <<>>

(***************************************************************************)
(* plugin/src/code.ts, the helpers.                                        *)
(***************************************************************************)
getNodeProperties(node) ==
  LET baseProperties ==
        [id |-> node.id, type |-> node.type, name |-> node.name,
         visible |-> IF "visible" \in DOMAIN node THEN node.visible ELSE Undefined,
         locked |-> IF "locked" \in DOMAIN node THEN node.locked ELSE Undefined]
      geometry ==
        IF {"width", "height"} \subseteq DOMAIN node
        THEN [width |-> node.width, height |-> node.height] ELSE EmptyRecord
      position ==
        IF {"x", "y"} \subseteq DOMAIN node
        THEN [x |-> node.x, y |-> node.y] ELSE EmptyRecord
      fills ==
        IF "fills" \in DOMAIN node THEN [fills |-> node.fills] ELSE EmptyRecord
      strokes ==
        IF "strokes" \in DOMAIN node
        THEN [strokes |-> node.strokes,
              strokeWeight |-> IF "strokeWeight" \in DOMAIN node
                               THEN node.strokeWeight ELSE Undefined]
        ELSE EmptyRecord
  IN Obj(baseProperties @@ geometry @@ position @@ fills @@ strokes)

\* The index of the first local paint style named `name`, or 0.
FindStyleByName(d, name) ==
  LET hits == {i \in 1..Len(d.styles) : StrictEq(d.styles[i].name, name)}
  IN IF hits = {} THEN 0 ELSE CHOOSE i \in hits : \A j \in hits : i <= j

\* [ok, doc, style]: the style created or updated; the host's setters check
\* the name and the paints.
createOrUpdateColorStyle(d, name, color) ==
  LET existing == FindStyleByName(d, name)
      paints == Arr(<<SolidPaint(color)>>)
  IN IF existing # 0
     THEN IF ValidPaints(paints)
          THEN Done([d EXCEPT !.styles[existing].paints = paints])
                 @@ [style |-> existing]
          ELSE Failed(d, "in set_paints: validation failed")
     ELSE LET n == Len(d.styles) + 1
              created == [d EXCEPT !.styles = Append(@,
                            [id |-> Str(StyleId(n)), name |-> Str("Paint Style"),
                             description |-> Str(""), paints |-> Arr(<<>>)])]
          IN IF name.t # "string"
             THEN Failed(created, "in set_name: expected string")
             ELSE LET named == [created EXCEPT !.styles[n].name = name]
                  IN IF ValidPaints(paints)
                     THEN Done([named EXCEPT !.styles[n].paints = paints])
                            @@ [style |-> n]
                     ELSE Failed(named, "in set_paints: validation failed")

extractPaintStyleInfo(style) ==
  Obj([id |-> style.id, name |-> style.name,
       description |-> style.description, paints |-> style.paints])

\* setFillColor overwriting the first paint whatever its type.
setFillColorReplacing(d, i, color) ==
  LET paints == PaintsOf(d.nodes[i], "fills")
      solidPaint == SolidPaint(color)
  IN AssignPaints(d, i, "fills",
       Arr(IF Len(paints) > 0 THEN <<solidPaint>> \o Tail(paints)
           ELSE <<solidPaint>> \o paints))

\* Replace the first paint when it is SOLID, else put the new one in front.
setFillColor(d, i, color) ==
  LET paints == PaintsOf(d.nodes[i], "fills")
      solidPaint == SolidPaint(color)
  IN AssignPaints(d, i, "fills",
       Arr(IF Len(paints) > 0 /\ Is(Get(paints[1], "type"), "SOLID")
           THEN <<solidPaint>> \o Tail(paints)
           ELSE <<solidPaint>> \o paints))

setStrokeColor(d, i, color) ==
  LET paints == PaintsOf(d.nodes[i], "strokes")
      solidPaint == SolidPaint(color)
  IN AssignPaints(d, i, "strokes",
       Arr(IF Len(paints) > 0 /\ Is(Get(paints[1], "type"), "SOLID")
           THEN <<solidPaint>> \o Tail(paints)
           ELSE <<solidPaint>> \o paints))

\* paints[0].type.startsWith('GRADIENT')
FirstIsGradient(paints) ==
  /\ Len(paints) > 0
  /\ Get(paints[1], "type").t = "string"
  /\ StartsWithGradient(Get(paints[1], "type").v)

setFillGradient(d, i, gradient) ==
  LET paints == PaintsOf(d.nodes[i], "fills")
  IN AssignPaints(d, i, "fills",
       Arr(IF FirstIsGradient(paints)
           THEN <<gradient>> \o Tail(paints)
           ELSE <<gradient>> \o paints))

\* setStrokeGradient that always puts the gradient in front.
setStrokeGradientInFront(d, i, gradient) ==
  AssignPaints(d, i, "strokes", Arr(<<gradient>> \o PaintsOf(d.nodes[i], "strokes")))

setStrokeGradient(d, i, gradient) ==
  LET paints == PaintsOf(d.nodes[i], "strokes")
  IN AssignPaints(d, i, "strokes",
       Arr(IF FirstIsGradient(paints)
           THEN <<gradient>> \o Tail(paints)
           ELSE <<gradient>> \o paints))

setStrokeWeight(d, i, strokeWeight) ==
  IF "strokeWeight" \notin DOMAIN d.nodes[i]
  THEN Failed(d, "Cannot add property strokeWeight, object is not extensible")
  ELSE Done(SetProp(d, i, "strokeWeight", strokeWeight))

\* An effect the host accepts.
ValidEffect(e) == e.t = "object" /\ Get(e, "type").t = "string"

setEffect(d, i, effect) ==
  LET node == d.nodes[i]
      effects == IF "effects" \in DOMAIN node THEN node.effects.v ELSE <<>>
  IN IF "effects" \notin DOMAIN node
     THEN Failed(d, "Cannot add property effects, object is not extensible")
     ELSE IF ~ValidEffect(effect)
     THEN Failed(d, "in set_effects: validation failed")
     ELSE Done(SetProp(d, i, "effects", Arr(Append(effects, effect))))

\* figma.getStyleById: the index of the style with that id, or 0 (null).
getStyleById(d, styleId) ==
  LET hits == {i \in 1..Len(d.styles) : StrictEq(d.styles[i].id, styleId)}
  IN IF hits = {} THEN 0 ELSE CHOOSE i \in hits : TRUE

\* applyFillColorStyle putting the style's paints behind the node's own.
applyFillColorStyleAppending(d, i, styleId) ==
  LET style == getStyleById(d, styleId)
  IN IF style = 0
     THEN Failed(d, "Color style with ID " \o String(styleId) \o " not found.")
     ELSE IF Len(d.styles[style].paints.v) = 0
     THEN Failed(d, "Color style " \o String(d.styles[style].name)
                      \o " has no paints defined.")
     ELSE AssignPaints(d, i, "fills",
            Arr(PaintsOf(d.nodes[i], "fills") \o d.styles[style].paints.v))

applyFillColorStyle(d, i, styleId) ==
  LET style == getStyleById(d, styleId)
  IN IF style = 0
     THEN Failed(d, "Color style with ID " \o String(styleId) \o " not found.")
     ELSE IF Len(d.styles[style].paints.v) = 0
     THEN Failed(d, "Color style " \o String(d.styles[style].name)
                      \o " has no paints defined.")
     ELSE AssignPaints(d, i, "fills", d.styles[style].paints)

applyStrokeColorStyle(d, i, styleId) ==
  LET style == getStyleById(d, styleId)
  IN IF style = 0
     THEN Failed(d, "Color style with ID " \o String(styleId) \o " not found.")
     ELSE IF Len(d.styles[style].paints.v) = 0
     THEN Failed(d, "Color style " \o String(d.styles[style].name)
                      \o " has no paints defined.")
     ELSE AssignPaints(d, i, "strokes", d.styles[style].paints)

exportableNodeTypes ==
  {"BOOLEAN_OPERATION", "CODE_BLOCK", "COMPONENT", "COMPONENT_SET", "CONNECTOR",
   "ELLIPSE", "EMBED", "FRAME", "GROUP", "HIGHLIGHT", "INSTANCE", "LINE",
   "LINK_UNFURL", "MEDIA", "PAGE", "POLYGON", "RECTANGLE", "SECTION",
   "SHAPE_WITH_TEXT", "SLICE", "STAMP", "STAR", "STICKY", "TABLE", "TEXT",
   "VECTOR", "WASHI_TAPE", "WIDGET"}

\* isExportable testing indexOf(node.type) for truth: -1 (absent) passes, and
\* 0 (the first entry) does not.
isExportableByIndexOf(node) == node.type.v # "BOOLEAN_OPERATION"

isExportable(node) == node.type.v \in exportableNodeTypes

(***************************************************************************)
(* plugin/src/code.ts, the cases of the switch in figma.ui.onmessage.  A  *)
(* case ends by leaving `result` set (Return), by throwing (Throw), or     *)
(* suspended at `await exportAsync` (Suspend).                             *)
(***************************************************************************)
Return(d, v) == [kind |-> "return", doc |-> d, value |-> v]
Throw(d, m) == [kind |-> "throw", doc |-> d, message |-> m]
Suspend(d, frame) == [kind |-> "await", doc |-> d, frame |-> frame]

Prop(node, k) == IF k \in DOMAIN node THEN node[k] ELSE Undefined
SelectedNodes(d) == [i \in 1..Len(d.selection) |-> d.nodes[d.selection[i]]]

GetSelection(d) == Return(d, Arr(Map(getNodeProperties, SelectedNodes(d))))

\* get-selection-details writing the layout whether or not the node has one.
SelectionDetailsAlwaysLayout(d, node) ==
  LET properties == getNodeProperties(node).v
      children ==
        IF "children" \in DOMAIN node
        THEN [children |->
                Arr([c \in 1..Len(node.children) |->
                       getNodeProperties(d.nodes[node.children[c]])])]
        ELSE EmptyRecord
      layout ==
        [layout |->
           Obj([layoutMode |-> Prop(node, "layoutMode"),
                itemSpacing |-> Prop(node, "itemSpacing")])]
  IN Obj(layout @@ children @@ properties)

SelectionDetails(d, node) ==
  LET properties == getNodeProperties(node).v
      children ==
        IF "children" \in DOMAIN node
        THEN [children |->
                Arr([c \in 1..Len(node.children) |->
                       getNodeProperties(d.nodes[node.children[c]])])]
        ELSE EmptyRecord
      constraints ==
        IF "constraints" \in DOMAIN node
        THEN [constraints |-> node.constraints] ELSE EmptyRecord
      layout ==
        IF "layoutMode" \in DOMAIN node
        THEN [layout |->
                Obj([layoutMode |-> node.layoutMode,
                     primaryAxisAlignItems |-> Prop(node, "primaryAxisAlignItems"),
                     counterAxisAlignItems |-> Prop(node, "counterAxisAlignItems"),
                     paddingLeft |-> Prop(node, "paddingLeft"),
                     paddingRight |-> Prop(node, "paddingRight"),
                     paddingTop |-> Prop(node, "paddingTop"),
                     paddingBottom |-> Prop(node, "paddingBottom"),
                     itemSpacing |-> Prop(node, "itemSpacing")])]
        ELSE EmptyRecord
  IN Obj(layout @@ constraints @@ children @@ properties)

GetSelectionDetails(d) ==
  LET nodes == SelectedNodes(d)
  IN Return(d, Arr([i \in 1..Len(nodes) |-> SelectionDetails(d, nodes[i])]))

\* The host's x / y setters take a number only.
\* figma.viewport.scrollAndZoomIntoView([node]) centres the viewport on it.
PlaceAndSelect(d, n, params) ==
  LET x == IF Truthy(Get(params, "x")) THEN Get(params, "x") ELSE d.center.x
      y == IF Truthy(Get(params, "y")) THEN Get(params, "y") ELSE d.center.y
  IN IF x.t # "number" THEN Failed(d, "in set_x: Expected number")
     ELSE LET dx == SetProp(d, n, "x", x)
          IN IF y.t # "number" THEN Failed(dx, "in set_y: Expected number")
             ELSE Done(SetProp(dx, n, "y", y))

Centred(d, n) ==
  [d EXCEPT !.center = [x |-> Num(d.nodes[n].x.v + (d.nodes[n].width.v \div 2)),
                        y |-> Num(d.nodes[n].y.v + (d.nodes[n].height.v \div 2))]]

\* create-rectangle awaiting a host call before it answers.
CreateRectangleAwaiting(d, params) ==
  LET n == Len(d.nodes) + 1
  IN Suspend([d EXCEPT !.nodes = Append(@, NewRectangle(n))],
             [node |-> n, exportSettings |-> Undefined, format |-> Undefined,
              exportScale |-> Undefined])

CreateRectangle(d, params) ==
  LET n == Len(d.nodes) + 1
      created == [d EXCEPT !.nodes = Append(@, NewRectangle(n))]
      placed == PlaceAndSelect(created, n, params)
  IN IF ~placed.ok THEN Throw(placed.doc, placed.message)
     ELSE Return([Centred(placed.doc, n) EXCEPT !.selection = <<n>>],
                 Obj([id |-> placed.doc.nodes[n].id]))

\* create-text removing the node again when a host call fails.
CreateTextRollingBack(d, params, fontLoaded) ==
  LET n == Len(d.nodes) + 1
      created == [d EXCEPT !.nodes = Append(@, NewText(n))]
      placed == PlaceAndSelect(created, n, params)
      characters == IF Truthy(Get(params, "text")) THEN Get(params, "text")
                    ELSE Str("Hello World")
  IN IF ~placed.ok THEN Throw(d, placed.message)
     ELSE IF ~fontLoaded
     THEN Throw(d, "Cannot write to node with unloaded font")
     ELSE IF characters.t # "string"
     THEN Throw(d, "in set_characters: Expected string")
     ELSE LET written == SetProp(placed.doc, n, "characters", characters)
          IN Return([Centred(written, n) EXCEPT !.selection = <<n>>],
                    Obj([id |-> written.nodes[n].id]))

\* text.characters can be set only once the node's font is loaded, and the
\* handler loads none: fontLoaded is whether the host has it loaded anyway.
CreateText(d, params, fontLoaded) ==
  LET n == Len(d.nodes) + 1
      created == [d EXCEPT !.nodes = Append(@, NewText(n))]
      placed == PlaceAndSelect(created, n, params)
      characters == IF Truthy(Get(params, "text")) THEN Get(params, "text")
                    ELSE Str("Hello World")
  IN IF ~placed.ok THEN Throw(placed.doc, placed.message)
     ELSE IF ~fontLoaded
     THEN Throw(placed.doc, "Cannot write to node with unloaded font")
     ELSE IF characters.t # "string"
     THEN Throw(placed.doc, "in set_characters: Expected string")
     ELSE LET written == SetProp(placed.doc, n, "characters", characters)
          IN Return([Centred(written, n) EXCEPT !.selection = <<n>>],
                    Obj([id |-> written.nodes[n].id]))

GetColorStyles(d) == Return(d, Arr(Map(extractPaintStyleInfo, d.styles)))

CreateColorStyle(d, params) ==
  LET name == Get(params, "name")
      color == Get(params, "color")
  IN IF ~Truthy(name) \/ ~Truthy(color)
     THEN Throw(d, "Name and color are required.")
     ELSE LET r == createOrUpdateColorStyle(d, name, color)
          IN IF r.ok THEN Return(r.doc, Obj([styleId |-> r.doc.styles[r.style].id]))
             ELSE Throw(r.doc, r.message)

\* The export settings of format (upper-cased), or none for any other format.
ExportSettingsFor(upper, exportScale) ==
  CASE upper = "PNG" ->
         Obj([format |-> Str("PNG"),
              constraint |-> Obj([type |-> Str("SCALE"), value |-> exportScale])])
    [] upper = "JPG" ->
         Obj([format |-> Str("JPG"),
              constraint |-> Obj([type |-> Str("SCALE"), value |-> exportScale])])
    [] upper = "SVG" -> Obj([format |-> Str("SVG")])
    [] upper = "PDF" -> Obj([format |-> Str("PDF")])
    [] OTHER -> Undefined

\* export-selection checking the format before the selection.
ExportSelectionFormatFirst(d, params) ==
  IF ~Truthy(Get(params, "format")) THEN Throw(d, "Format is required for exporting.")
  ELSE IF Len(d.selection) = 0 THEN Throw(d, "Please select a node to export.")
  ELSE Suspend(d, [node |-> d.selection[1],
                   exportSettings |-> ExportSettingsFor("PNG", Num(1)),
                   format |-> Get(params, "format"), exportScale |-> Num(1)])

ExportSelection(d, params) ==
  IF Len(d.selection) = 0 THEN Throw(d, "Please select a node to export.")
  ELSE
    LET selectedNode == d.nodes[d.selection[1]]
        format == Get(params, "format")
        scale == Get(params, "scale")
        exportScale == IF Truthy(scale) THEN scale ELSE Num(1)
    IN IF ~Truthy(format) THEN Throw(d, "Format is required for exporting.")
       ELSE IF ~isExportable(selectedNode)
       THEN Throw(d, "Node type " \o selectedNode.type.v \o " is not exportable.")
       ELSE IF format.t # "string"
       THEN Throw(d, "format.toUpperCase is not a function")
       ELSE LET exportSettings == ExportSettingsFor(ToUpperCase(format.v), exportScale)
            IN IF exportSettings = Undefined
               THEN Throw(d, "Unsupported export format: " \o format.v)
               ELSE Suspend(d, [node |-> d.selection[1],
                                exportSettings |-> exportSettings,
                                format |-> format, exportScale |-> exportScale])

\* set-fill-color awaiting a host call before it answers.
SetFillColorCaseAwaiting(d, params) ==
  IF Len(d.selection) = 0 THEN Throw(d, "Please select a node to set fill color.")
  ELSE Suspend(d, [node |-> d.selection[1], exportSettings |-> Undefined,
                   format |-> Undefined, exportScale |-> Undefined])

SetFillColorCase(d, params) ==
  IF Len(d.selection) = 0 THEN Throw(d, "Please select a node to set fill color.")
  ELSE
    LET nodeToFill == d.selection[1]
        fillColorValue == Get(params, "value")
        fillStyleId == Get(params, "styleId")
        type == Get(fillColorValue, "type")
        r == IF Truthy(fillStyleId) THEN applyFillColorStyle(d, nodeToFill, fillStyleId)
             ELSE IF ~Truthy(fillColorValue)
             THEN Failed(d, "Either 'value' (color/gradient) or 'styleId' is required for setting fill color.")
             ELSE IF Is(type, "SOLID")
             THEN setFillColor(d, nodeToFill, Get(fillColorValue, "color"))
             ELSE IF type.t # "string"
             THEN Failed(d, "fillColorValue.type.startsWith is not a function")
             ELSE IF StartsWithGradient(type.v)
             THEN setFillGradient(d, nodeToFill, fillColorValue)
             ELSE Failed(d, "Unsupported paint type for fills: " \o type.v)
    IN IF r.ok THEN Return(r.doc, Obj([status |-> Str("Fill color set successfully.")]))
       ELSE Throw(r.doc, r.message)

SetStrokeColorCase(d, params) ==
  IF Len(d.selection) = 0 THEN Throw(d, "Please select a node to set stroke color.")
  ELSE
    LET nodeToStroke == d.selection[1]
        strokeColorValue == Get(params, "value")
        strokeStyleId == Get(params, "styleId")
        type == Get(strokeColorValue, "type")
        r == IF Truthy(strokeStyleId)
             THEN applyStrokeColorStyle(d, nodeToStroke, strokeStyleId)
             ELSE IF ~Truthy(strokeColorValue)
             THEN Failed(d, "Either 'value' (color/gradient) or 'styleId' is required for setting stroke color.")
             ELSE IF Is(type, "SOLID")
             THEN setStrokeColor(d, nodeToStroke, Get(strokeColorValue, "color"))
             ELSE IF type.t # "string"
             THEN Failed(d, "strokeColorValue.type.startsWith is not a function")
             ELSE IF StartsWithGradient(type.v)
             THEN setStrokeGradient(d, nodeToStroke, strokeColorValue)
             ELSE Failed(d, "Unsupported paint type for strokes: " \o type.v)
    IN IF r.ok THEN Return(r.doc, Obj([status |-> Str("Stroke color set successfully.")]))
       ELSE Throw(r.doc, r.message)

\* set-stroke-weight testing its value before the selection.
SetStrokeWeightCaseValueFirst(d, params) ==
  IF Get(params, "value").t # "number"
  THEN Throw(d, "'value' is required and must be a number for setting stroke weight.")
  ELSE IF Len(d.selection) = 0
  THEN Throw(d, "Please select a node to set stroke weight.")
  ELSE LET r == setStrokeWeight(d, d.selection[1], Get(params, "value"))
       IN IF r.ok
          THEN Return(r.doc, Obj([status |-> Str("Stroke weight set successfully.")]))
          ELSE Throw(r.doc, r.message)

SetStrokeWeightCase(d, params) ==
  IF Len(d.selection) = 0 THEN Throw(d, "Please select a node to set stroke weight.")
  ELSE
    LET strokeWeightValue == Get(params, "value")
    IN IF strokeWeightValue.t # "number"
       THEN Throw(d, "'value' is required and must be a number for setting stroke weight.")
       ELSE LET r == setStrokeWeight(d, d.selection[1], strokeWeightValue)
            IN IF r.ok
               THEN Return(r.doc, Obj([status |-> Str("Stroke weight set successfully.")]))
               ELSE Throw(r.doc, r.message)

SetEffectCase(d, params) ==
  IF Len(d.selection) = 0 THEN Throw(d, "Please select a node to set effect.")
  ELSE
    LET effectValue == Get(params, "value")
    IN IF ~Truthy(effectValue)
       THEN Throw(d, "'value' (effect object) is required for setting an effect.")
       ELSE LET r == setEffect(d, d.selection[1], effectValue)
            IN IF r.ok THEN Return(r.doc, Obj([status |-> Str("Effect set successfully.")]))
               ELSE Throw(r.doc, r.message)

\* The figma-ping case without its assignment to `result`.
FigmaPingNoResult(d, params) == Return(d, Undefined)

\* new Date().toISOString() is whatever the clock says.
FigmaPing(d, params) ==
  Return(d, Obj([status |-> Str("ok"),
                 timestamp |-> Str("<now>"),
                 received_message |-> Get(params, "message"),
                 received_timestamp |-> Get(params, "timestamp"),
                 plugin_info |->
                   Obj([version |-> Str("1.0.0"),
                        viewport |-> Obj([zoom |-> Num(1), center |-> Obj(d.center)]),
                        current_page |->
                          Obj([id |-> Str("0:1"), name |-> Str("Page 1"),
                               selection_count |-> Num(Len(d.selection))])])]))

\* One entry of the catalog: the name, the parameters with their types, and
\* the required ones.
Function(name, properties, required) ==
  Obj([name |-> Str(name),
       inputSchema |-> Obj([type |-> Str("object"), properties |-> Obj(properties),
                            required |-> Arr(Map(Str, required))])])

Catalog ==
  <<Function("get.selection", EmptyRecord, <<>>),
    Function("get.selection.details", EmptyRecord, <<>>),
    Function("create.rectangle", [x |-> Str("number"), y |-> Str("number")], <<>>),
    Function("create.text",
             [x |-> Str("number"), y |-> Str("number"), text |-> Str("string")], <<>>),
    Function("get.color.styles", EmptyRecord, <<>>),
    Function("create.color.style",
             [name |-> Str("string"), color |-> Str("object")], <<"name", "color">>),
    Function("export.selection",
             [format |-> Str("string"), scale |-> Str("number")], <<"format">>),
    Function("set.fill.color",
             [value |-> Str("object"), styleId |-> Str("string")], <<>>),
    Function("set.stroke.color",
             [value |-> Str("object"), styleId |-> Str("string")], <<>>),
    Function("set.stroke.weight", [value |-> Str("number")], <<"value">>),
    Function("set.effect", [value |-> Str("object")], <<"value">>),
    Function("figma.ping",
             [message |-> Str("string"), timestamp |-> Str("number")], <<>>)>>

ListFunctions(d) == Return(d, Obj([functions |-> Arr(Catalog)]))

\* The case labels of the switch.
HandlerNames ==
  {"get-selection", "get-selection-details", "create-rectangle", "create-text",
   "get-color-styles", "create-color-style", "export-selection", "set-fill-color",
   "set-stroke-color", "set-stroke-weight", "set-effect", "figma-ping",
   "list-functions"}

\* A dispatcher that takes a prefix of get-selection for get-selection.
HandlerByPrefix(method, params, d, fontLoaded) ==
  IF Is(method, "get-selectio") \/ Is(method, "get-selection") THEN GetSelection(d)
  ELSE Throw(d, "Unknown command: " \o String(method))

\* switch (method): strict equality with each case label, in order.
Handler(method, params, d, fontLoaded) ==
  CASE Is(method, "get-selection") -> GetSelection(d)
    [] Is(method, "get-selection-details") -> GetSelectionDetails(d)
    [] Is(method, "create-rectangle") -> CreateRectangle(d, params)
    [] Is(method, "create-text") -> CreateText(d, params, fontLoaded)
    [] Is(method, "get-color-styles") -> GetColorStyles(d)
    [] Is(method, "create-color-style") -> CreateColorStyle(d, params)
    [] Is(method, "export-selection") -> ExportSelection(d, params)
    [] Is(method, "set-fill-color") -> SetFillColorCase(d, params)
    [] Is(method, "set-stroke-color") -> SetStrokeColorCase(d, params)
    [] Is(method, "set-stroke-weight") -> SetStrokeWeightCase(d, params)
    [] Is(method, "set-effect") -> SetEffectCase(d, params)
    [] Is(method, "figma-ping") -> FigmaPing(d, params)
    [] Is(method, "list-functions") -> ListFunctions(d)
    [] OTHER -> Throw(d, "Unknown command: " \o String(method))

\* figma.ui.postMessage({ id, result }) and ({ id, error: { message } }).
ResultResponse(id, result) == Obj([id |-> id, result |-> result])
ErrorResponse(id, message) ==
  Obj([id |-> id, error |-> Obj([message |-> Str(message)])])

\* The dispatcher without its catch block: a handler's exception escapes.
RespondToUncaught(id, out) ==
  IF out.kind = "return" THEN <<ResultResponse(id, out.value)>> ELSE <<>>

\* The end of the try block and its catch: the messages posted for a handler
\* that has returned or thrown.
RespondTo(id, out) ==
  IF out.kind = "return" THEN <<ResultResponse(id, out.value)>>
  ELSE <<ErrorResponse(id, out.message)>>

(***************************************************************************)
(* ui.html, the transport.  A WebSocket object is its readyState; NONE is  *)
(* a slot of the pool that holds no object (a closed socket nothing refers  *)
(* to any more is collected).                                               *)
(***************************************************************************)
SocketIds == 1..MaxSockets

\* WebSocket.close(): a connecting or open socket starts closing; on a
\* closing or closed one the call does nothing.
WebSocketClose(readyState) ==
  IF readyState \in {"CONNECTING", "OPEN"} THEN "CLOSING" ELSE readyState

\* WebSocket.send(data): throws InvalidStateError while CONNECTING, transmits
\* while OPEN, and discards the data while CLOSING or CLOSED.
WebSocketSend(readyState) ==
  CASE readyState = "CONNECTING" -> "InvalidStateError"
    [] readyState = "OPEN" -> "transmitted"
    [] OTHER -> "discarded"

\* connect(): ws = new WebSocket(...).  tr is [socks, ws, timers].
connect(tr) ==
  LET free == {s \in SocketIds : tr.socks[s] = "NONE"}
      new == CHOOSE s \in free : \A o \in free : s <= o
  IN [tr EXCEPT !.ws = new,
                !.socks = [s \in SocketIds |->
                             IF s = new THEN "CONNECTING"
                             ELSE IF s = tr.ws /\ tr.socks[s] = "CLOSED" THEN "NONE"
                             ELSE tr.socks[s]]]

\* ws.onclose that reconnects only after an unclean close.
wsOnCloseUncleanOnly(tr, wasClean) ==
  IF wasClean THEN tr ELSE [tr EXCEPT !.timers = @ + 1]

\* ws.onclose: the status text depends on event.wasClean, the reconnect
\* timer does not.
wsOnClose(tr, wasClean) == [tr EXCEPT !.timers = @ + 1]

\* ws.onerror that schedules a reconnect of its own as well.
wsOnErrorReconnecting(tr) ==
  [tr EXCEPT !.socks[tr.ws] = WebSocketClose(@), !.timers = @ + 1]

\* ws.onerror that opens a new socket at once and leaves the old one as it is.
wsOnErrorInPlace(tr) ==
  IF \E s \in SocketIds : tr.socks[s] = "NONE" THEN connect(tr) ELSE tr

\* ws.onerror: closes the socket the variable ws holds.
wsOnError(tr) == [tr EXCEPT !.socks[tr.ws] = WebSocketClose(@)]

\* ws.onmessage that forwards whatever it has after a parse error.
wsOnMessageUnchecked(data) ==
  LET message == JSONParse(data)
  IN IF message.ok THEN <<message.val>> ELSE <<Undefined>>

\* ws.onmessage: the message to forward to the plugin, or none when
\* JSON.parse throws.
wsOnMessage(data) ==
  LET message == JSONParse(data)
  IN IF message.ok THEN <<message.val>> ELSE <<>>

\* window.onmessage whose send goes out whatever the socket's state.
windowOnMessageBlind(pluginMessage, readyState) ==
  IF Truthy(pluginMessage) THEN "transmitted" ELSE "ignored"

\* window.onmessage: what becomes of event.data.pluginMessage.
windowOnMessage(pluginMessage, readyState) ==
  IF Truthy(pluginMessage) THEN WebSocketSend(readyState) ELSE "ignored"

(***************************************************************************)
(* What the server sends: a command of the menu with the next id, or a    *)
(* damaged text of it.                                                     *)
(***************************************************************************)
Command(method, params) == [method |-> Str(method)] @@ params
NoParams == EmptyRecord

WithId(cmd, n) == Obj([id |-> Str(ToString(n))] @@ cmd)

Damaged(text, damage) ==
  CASE damage = "none" -> text
    [] damage = "truncated" -> SubSeq(text, 1, Len(text) - 1)
    [] damage = "trailing" -> text \o <<RBrace>>
    [] damage = "garbage" -> <<Garbage>>

Damages == {"none", "truncated", "trailing", "garbage"}

(***************************************************************************)
(* The state.                                                              *)
(***************************************************************************)
VARIABLES
  socks,        \* the WebSocket objects: SocketIds -> readyState or NONE
  ws,           \* the socket the variable ws holds
  timers,       \* the reconnect timers pending
  toPlugin,     \* messages parent.postMessage sent, not yet delivered
  toUI,         \* messages figma.ui.postMessage sent, not yet delivered
  awaiting,     \* the handlers suspended at await exportAsync
  doc,          \* the host document
  inbound,      \* history: the payloads that reached ws.onmessage
  dispatched,   \* history: the messages figma.ui.onmessage was called with
  posted,       \* history: the responses figma.ui.postMessage was called with
  exportCalls,  \* history: the calls of exportAsync
  wire,         \* history: the frames transmitted on a socket
  lost          \* history: the responses that reached window.onmessage unsent

vars == <<socks, ws, timers, toPlugin, toUI, awaiting, doc,
          inbound, dispatched, posted, exportCalls, wire, lost>>

transport == [socks |-> socks, ws |-> ws, timers |-> timers]
SetTransport(tr) == socks' = tr.socks /\ ws' = tr.ws /\ timers' = tr.timers

\* The page has run connect() once.
InitOn(Docs) ==
  /\ socks = [s \in SocketIds |-> IF s = 1 THEN "CONNECTING" ELSE "NONE"]
  /\ ws = 1
  /\ timers = 0
  /\ toPlugin = <<>>
  /\ toUI = <<>>
  /\ awaiting = <<>>
  /\ doc \in Docs
  /\ inbound = <<>>
  /\ dispatched = <<>>
  /\ posted = <<>>
  /\ exportCalls = <<>>
  /\ wire = <<>>
  /\ lost = {}

\* The socket's connection is established: ws.onopen.
SocketOpens(s) ==
  /\ socks[s] = "CONNECTING"
  /\ socks' = [socks EXCEPT ![s] = "OPEN"]
  /\ UNCHANGED <<ws, timers, toPlugin, toUI, awaiting, doc,
                 inbound, dispatched, posted, exportCalls, wire, lost>>

\* The browser reports an error on a socket that is still up: ws.onerror.
SocketErrors(s) ==
  /\ socks[s] \in {"CONNECTING", "OPEN"}
  /\ SetTransport(wsOnError(transport))
  /\ UNCHANGED <<toPlugin, toUI, awaiting, doc,
                 inbound, dispatched, posted, exportCalls, wire, lost>>

\* The socket's connection ends (the peer closed it, the connection failed
\* or close() completed): readyState becomes CLOSED, then, when the
\* connection failed, ws.onerror, and ws.onclose.  A closed socket that the
\* variable ws does not hold is collected.
SocketCloses(s, failed, wasClean) ==
  /\ socks[s] \in {"CONNECTING", "OPEN", "CLOSING"}
  /\ LET closed == [transport EXCEPT !.socks[s] = "CLOSED"]
         errored == IF failed THEN wsOnError(closed) ELSE closed
         after == wsOnClose(errored, wasClean)
     IN SetTransport([after EXCEPT !.socks[s] = IF s = after.ws THEN @ ELSE "NONE"])
  /\ UNCHANGED <<toPlugin, toUI, awaiting, doc,
                 inbound, dispatched, posted, exportCalls, wire, lost>>

\* A reconnect timer fires: connect().
TimerFires ==
  /\ timers > 0
  /\ \E s \in SocketIds : socks[s] = "NONE"
  /\ SetTransport(connect([transport EXCEPT !.timers = @ - 1]))
  /\ UNCHANGED <<toPlugin, toUI, awaiting, doc,
                 inbound, dispatched, posted, exportCalls, wire, lost>>

\* A payload arrives on an open socket: ws.onmessage.
SocketReceives(s, cmd, damage, max) ==
  /\ socks[s] = "OPEN"
  /\ Len(inbound) < max
  /\ LET n == Len(inbound) + 1
         data == Damaged(JSONStringify(WithId(cmd, n)), damage)
         forwarded == wsOnMessage(data)
     IN /\ inbound' = Append(inbound, [wellFormed |-> damage = "none", sock |-> s])
        /\ toPlugin' = toPlugin \o [i \in 1..Len(forwarded) |->
                                      [pluginMessage |-> forwarded[i], n |-> n]]
  /\ UNCHANGED <<socks, ws, timers, toUI, awaiting, doc,
                 dispatched, posted, exportCalls, wire, lost>>

\* figma.ui.onmessage is called with the next message, and runs to its end
\* or to `await exportAsync`.
PluginReceives(fontLoaded) ==
  /\ toPlugin # <<>>
  /\ LET msg == Head(toPlugin).pluginMessage
         method == Get(msg, "method")
         id == Get(msg, "id")
         params == Without(msg, {"method", "id"})
         j == Len(dispatched) + 1
         out == Handler(method, params, doc, fontLoaded)
     IN /\ toPlugin' = Tail(toPlugin)
        /\ dispatched' = Append(dispatched, [msg |-> msg, n |-> Head(toPlugin).n])
        /\ doc' = out.doc
        /\ IF out.kind = "await"
           THEN /\ awaiting' = Append(awaiting, out.frame @@ [id |-> id, of |-> j])
                /\ exportCalls' = Append(exportCalls,
                                         [node |-> out.frame.node,
                                          settings |-> out.frame.exportSettings])
                /\ UNCHANGED <<toUI, posted>>
           ELSE LET responses == RespondTo(id, out)
                IN /\ toUI' = toUI \o [i \in 1..Len(responses) |->
                                         [pluginMessage |-> responses[i], of |-> j]]
                   /\ posted' = posted \o [i \in 1..Len(responses) |->
                                             [of |-> j, id |-> Get(responses[i], "id")]]
                   /\ UNCHANGED <<awaiting, exportCalls>>
  /\ UNCHANGED <<socks, ws, timers, inbound, wire, lost>>

\* The bytes exportAsync resolves with.
ExportedData(frame) == Obj([bytesOf |-> Num(frame.node), as |-> frame.exportSettings])

\* The export of a suspended handler resolves or rejects; the handler resumes.
ExportSettles(k, resolved) ==
  /\ k \in 1..Len(awaiting)
  /\ LET frame == awaiting[k]
         response ==
           IF resolved
           THEN ResultResponse(frame.id,
                  Obj([data |-> ExportedData(frame), format |-> frame.format,
                       scale |-> frame.exportScale]))
           ELSE ErrorResponse(frame.id, "Failed to export node")
     IN /\ toUI' = Append(toUI, [pluginMessage |-> response, of |-> frame.of])
        /\ posted' = Append(posted, [of |-> frame.of, id |-> Get(response, "id")])
        /\ awaiting' = [i \in 1..(Len(awaiting) - 1) |->
                          IF i < k THEN awaiting[i] ELSE awaiting[i + 1]]
  /\ UNCHANGED <<socks, ws, timers, toPlugin, doc,
                 inbound, dispatched, exportCalls, wire, lost>>

\* window.onmessage is called with the next message of the plugin.
UIReceives ==
  /\ toUI # <<>>
  /\ LET e == Head(toUI)
         sent == windowOnMessage(e.pluginMessage, socks[ws])
         frame == JSONStringify(e.pluginMessage)
     IN /\ toUI' = Tail(toUI)
        /\ IF sent = "transmitted"
           THEN /\ wire' = Append(wire, [of |-> e.of, sock |-> ws,
                                         readyState |-> socks[ws],
                                         id |-> Get(JSONParse(frame).val, "id")])
                /\ lost' = lost
           ELSE /\ lost' = lost \cup {e.of}
                /\ wire' = wire
  /\ UNCHANGED <<socks, ws, timers, toPlugin, awaiting, doc,
                 inbound, dispatched, posted, exportCalls>>

NextOn(Menu, max) ==
  \/ \E s \in SocketIds : SocketOpens(s)
  \/ \E s \in SocketIds : SocketErrors(s)
  \/ \E s \in SocketIds, failed \in BOOLEAN, wasClean \in BOOLEAN :
       SocketCloses(s, failed, wasClean)
  \/ TimerFires
  \/ \E s \in SocketIds, cmd \in Menu, damage \in Damages :
       SocketReceives(s, cmd, damage, max)
  \/ \E fontLoaded \in BOOLEAN : PluginReceives(fontLoaded)
  \/ \E k \in 1..Len(awaiting), resolved \in BOOLEAN : ExportSettles(k, resolved)
  \/ UIReceives

(***************************************************************************)
(* The documents and the commands of the specifications.                   *)
(***************************************************************************)
\* One rectangle, selected, and one paint style.
RectangleDoc ==
  [EmptyDoc EXCEPT !.nodes = <<NewRectangle(1)>>, !.selection = <<1>>,
                   !.styles = <<[id |-> Str(StyleId(1)), name |-> Str("Brand"),
                                 description |-> Str(""),
                                 paints |-> Arr(<<SolidPaint(Blue)>>)]>>]

CoreDocs == {EmptyDoc, RectangleDoc}

\* A few commands, to be sent several in a row: one that awaits, one that
\* mutates the document, one that throws without a selection, an unknown one.
CoreMenu ==
  {Command("export-selection", [format |-> Str("png")]),
   Command("create-rectangle", [x |-> Num(10), y |-> Num(20)]),
   Command("set-fill-color", [value |-> SolidPaint(Red)]),
   Command("get-selectio", NoParams)}

\* Every method of the switch, and methods it does not have: a prefix of a
\* known name, another name, and a command with no method at all.
WideMenu ==
  {Command("get-selection", NoParams),
   Command("get-selection-details", NoParams),
   Command("create-rectangle", [x |-> Num(10), y |-> Num(20)]),
   Command("create-text", [text |-> Str("Hi")]),
   Command("get-color-styles", NoParams),
   Command("create-color-style", [name |-> Str("Brand"), color |-> Red]),
   Command("create-color-style", [name |-> Str("Accent")]),
   Command("export-selection", [format |-> Str("png"), scale |-> Num(2)]),
   Command("set-fill-color", [value |-> GradientPaint("GRADIENT_LINEAR")]),
   Command("set-stroke-color", [styleId |-> Str(StyleId(1))]),
   Command("set-stroke-weight", [value |-> Num(3)]),
   Command("set-effect", [value |-> Obj([type |-> Str("DROP_SHADOW")])]),
   Command("figma-ping", [message |-> Str("hello")]),
   Command("list-functions", NoParams),
   Command("get-selectio", NoParams),
   Command("delete-node", NoParams),
   [x |-> Num(1)]}

\* export-selection with every combination of a format and a scale.
ExportFormats == {Undefined, Str("png"), Str("PNG"), Str("gif")}
ExportScales == {Undefined, Num(2)}
ExportMenu ==
  {Command("export-selection",
           [k \in {p \in {"format"} : f # Undefined} \cup {p \in {"scale"} : sc # Undefined}
              |-> IF k = "format" THEN f ELSE sc]) :
     f \in ExportFormats, sc \in ExportScales}

Init == InitOn(CoreDocs)
Next == NextOn(CoreMenu, MaxPayloads)
Spec == Init /\ [][Next]_vars

\* A timer that is due fires: the event loop runs every setTimeout callback.
FairSpec == Init /\ [][NextOn(CoreMenu, MaxWidePayloads)]_vars /\ WF_vars(TimerFires)

SpecWide == Init /\ [][NextOn(WideMenu, MaxWidePayloads)]_vars
SpecExport == Init /\ [][NextOn(ExportMenu, MaxWidePayloads)]_vars

\* Selections whose first node is a slide row, alone or followed by a
\* rectangle, and one where the rectangle comes first.
SlideRowDoc == [EmptyDoc EXCEPT !.nodes = <<NewSlideRow(1)>>, !.selection = <<1>>]
RowThenRectangleDoc ==
  [EmptyDoc EXCEPT !.nodes = <<NewSlideRow(1), NewRectangle(2)>>, !.selection = <<1, 2>>]
RectangleThenRowDoc ==
  [EmptyDoc EXCEPT !.nodes = <<NewSlideRow(1), NewRectangle(2)>>, !.selection = <<2, 1>>]
ExportDocs == {SlideRowDoc, RowThenRectangleDoc, RectangleThenRowDoc}

SpecExportTypes == InitOn(ExportDocs) /\ [][NextOn(ExportMenu, MaxWidePayloads)]_vars

\* The same export asked for in lower and in upper case, and a format the
\* switch does not know.
ExportPairMenu ==
  {Command("export-selection", [format |-> Str("png"), scale |-> Num(2)]),
   Command("export-selection", [format |-> Str("PNG"), scale |-> Num(2)]),
   Command("export-selection", [format |-> Str("gif"), scale |-> Num(2)])}

SpecExportPair == InitOn({RectangleDoc}) /\ [][NextOn(ExportPairMenu, MaxPayloads)]_vars

\* A rectangle with paints of its own, selected; a style of two paints and a
\* style of none.
PaintStyles ==
  <<[id |-> Str(StyleId(1)), name |-> Str("Brand"), description |-> Str(""),
     paints |-> Arr(<<SolidPaint(Blue), GradientPaint("GRADIENT_RADIAL")>>)],
    [id |-> Str(StyleId(2)), name |-> Str("Blank"), description |-> Str(""),
     paints |-> Arr(<<>>)]>>
PaintedRectangle(i, fills, strokes) ==
  [NewRectangle(i) EXCEPT !.fills = Arr(fills), !.strokes = Arr(strokes)]
StyledDoc ==
  [EmptyDoc EXCEPT
     !.nodes = <<PaintedRectangle(1, <<SolidPaint(Black), GradientPaint("GRADIENT_LINEAR")>>,
                                  <<SolidPaint(Red)>>)>>,
     !.selection = <<1>>,
     !.styles = PaintStyles]
\* The same styles, and a selected node that has no paints.
StyledRowDoc == [SlideRowDoc EXCEPT !.styles = PaintStyles]
StyleDocs == {StyledDoc, StyledRowDoc}

\* Styles applied by id: a style with paints, one without, an id of no style;
\* and a style id together with a value.
StyleMenu ==
  {Command(m, [styleId |-> Str(StyleId(s))]) :
     m \in {"set-fill-color", "set-stroke-color"}, s \in {1, 2, 9}}
  \cup {Command(m, [styleId |-> Str(StyleId(1)), value |-> SolidPaint(Red)]) :
          m \in {"set-fill-color", "set-stroke-color"}}
  \cup {Command("export-selection", [format |-> Str("PNG")])}

SpecStyle == InitOn(StyleDocs) /\ [][NextOn(StyleMenu, MaxWidePayloads)]_vars

\* Selected rectangles whose paint lists start with a gradient, start with a
\* solid paint, or (the strokes of a new rectangle) are empty.
GradientFirstDoc ==
  [EmptyDoc EXCEPT
     !.nodes = <<PaintedRectangle(1, <<GradientPaint("GRADIENT_LINEAR"), SolidPaint(Blue)>>,
                                  <<GradientPaint("GRADIENT_RADIAL"), SolidPaint(Red)>>)>>,
     !.selection = <<1>>]
SolidFirstDoc ==
  [EmptyDoc EXCEPT
     !.nodes = <<PaintedRectangle(1, <<SolidPaint(Black), GradientPaint("GRADIENT_LINEAR")>>,
                                  <<SolidPaint(Red), SolidPaint(Blue)>>)>>,
     !.selection = <<1>>]
PaintDocs == {GradientFirstDoc, SolidFirstDoc, RectangleDoc}

\* A solid paint that carries an opacity as well.
TranslucentPaint(color) == Obj([type |-> Str("SOLID"), color |-> color, opacity |-> Num(0)])
PaintValues ==
  {SolidPaint(Red), TranslucentPaint(Red),
   GradientPaint("GRADIENT_LINEAR"), GradientPaint("GRADIENT_RADIAL")}
PaintMenu ==
  {Command(m, [value |-> v]) :
     m \in {"set-fill-color", "set-stroke-color"}, v \in PaintValues}
  \cup {Command("export-selection", [format |-> Str("PNG")])}

SpecPaint == InitOn(PaintDocs) /\ [][NextOn(PaintMenu, MaxWidePayloads)]_vars

\* Rectangles created at given coordinates, the origin among them, and the
\* selection read back.
CreateMenu ==
  {Command("create-rectangle", [x |-> Num(x), y |-> Num(y)]) : x \in {0, 10}, y \in {0, 20}}
  \cup {Command("get-selection", NoParams),
        Command("export-selection", [format |-> Str("PNG")])}

SpecCreate == Init /\ [][NextOn(CreateMenu, MaxPayloads)]_vars

\* A painted rectangle and the paint styles, with nothing selected.
UnselectedDoc == [StyledDoc EXCEPT !.selection = <<>>]
SelectDocs == {EmptyDoc, UnselectedDoc, RectangleDoc}

\* The commands that work on the selection, each with no parameter, with
\* good ones and with bad ones.
SelectMenu ==
  {Command(m, NoParams) :
     m \in {"set-fill-color", "set-stroke-color", "set-stroke-weight", "set-effect",
            "export-selection"}}
  \cup {Command(m, [value |-> SolidPaint(Red)]) : m \in {"set-fill-color", "set-stroke-color"}}
  \cup {Command("set-fill-color", [styleId |-> Str(StyleId(1))]),
        Command("set-stroke-color", [styleId |-> Str(StyleId(9))]),
        Command("set-stroke-weight", [value |-> Num(3)]),
        Command("set-stroke-weight", [value |-> Str("3")]),
        Command("set-effect", [value |-> Obj([type |-> Str("DROP_SHADOW")])]),
        Command("export-selection", [format |-> Str("PNG")]),
        Command("export-selection", [format |-> Str("gif"), scale |-> Num(2)])}

SpecSelect == InitOn(SelectDocs) /\ [][NextOn(SelectMenu, MaxWidePayloads)]_vars

\* The names the catalog of list-functions gives.
CatalogNames == {Get(Catalog[i], "name").v : i \in 1..Len(Catalog)}

\* list-functions, and a command by each name of its catalog.
CatalogMenu ==
  {Command(name, NoParams) : name \in CatalogNames}
  \cup {Command("list-functions", NoParams),
        Command("export-selection", [format |-> Str("PNG")])}

SpecCatalog == Init /\ [][NextOn(CatalogMenu, MaxWidePayloads)]_vars

\* The commands whose schema has required parameters, each without them and
\* with one of the wrong type, on a selected rectangle; and a good export.
RequiredMenu ==
  {Command("create-color-style", NoParams),
   Command("create-color-style", [name |-> Str("Accent")]),
   Command("create-color-style", [color |-> Red]),
   Command("create-color-style", [name |-> Num(5), color |-> Red]),
   Command("create-color-style", [name |-> Str("Accent"), color |-> Str("red")]),
   Command("export-selection", NoParams),
   Command("export-selection", [format |-> Num(5)]),
   Command("set-stroke-weight", NoParams),
   Command("set-stroke-weight", [value |-> Str("3")]),
   Command("set-effect", NoParams),
   Command("set-effect", [value |-> Str("blur")]),
   Command("export-selection", [format |-> Str("PNG")])}

SpecRequired == InitOn({RectangleDoc}) /\ [][NextOn(RequiredMenu, MaxPayloads)]_vars

\* What figma.createFrame() returns, with auto layout and the given children.
NewFrame(i, children) ==
  [id |-> Str(NodeId(i)), type |-> Str("FRAME"), name |-> Str("Frame"),
   visible |-> True, locked |-> False,
   width |-> Num(100), height |-> Num(100), x |-> Num(0), y |-> Num(0),
   fills |-> Arr(<<SolidPaint(Black)>>), strokes |-> Arr(<<>>),
   strokeWeight |-> Num(1), effects |-> Arr(<<>>),
   constraints |-> Obj([horizontal |-> Str("MIN"), vertical |-> Str("MIN")]),
   children |-> children,
   layoutMode |-> Str("HORIZONTAL"),
   primaryAxisAlignItems |-> Str("MIN"), counterAxisAlignItems |-> Str("MIN"),
   paddingLeft |-> Num(0), paddingRight |-> Num(0), paddingTop |-> Num(0),
   paddingBottom |-> Num(0), itemSpacing |-> Num(4)]

\* A group: it has a place, a size and children, and neither paints,
\* constraints nor a layout.
NewGroup(i, children) ==
  [id |-> Str(NodeId(i)), type |-> Str("GROUP"), name |-> Str("Group"),
   visible |-> True, locked |-> False,
   width |-> Num(100), height |-> Num(100), x |-> Num(0), y |-> Num(0),
   effects |-> Arr(<<>>), children |-> children]

\* A frame holding a group and a rectangle, the group holding a text; and a
\* slide row.  The frame, the group and the row are selected.
NestedDoc ==
  [EmptyDoc EXCEPT
     !.nodes = <<NewFrame(1, <<2, 3>>), NewGroup(2, <<4>>), NewRectangle(3),
                 NewText(4), NewSlideRow(5)>>,
     !.selection = <<1, 2, 5>>]
ProjectDocs == {NestedDoc, RectangleDoc, EmptyDoc}

ProjectMenu ==
  {Command("get-selection-details", NoParams),
   Command("get-selection", NoParams),
   Command("export-selection", [format |-> Str("PNG")])}

SpecProject == InitOn(ProjectDocs) /\ [][NextOn(ProjectMenu, MaxWidePayloads)]_vars

\* The closing handshake that ws.close() started comes to its end: the
\* browser fires the close event of a socket that is CLOSING.
ClosingCompletes ==
  \E s \in SocketIds, wasClean \in BOOLEAN :
    socks[s] = "CLOSING" /\ SocketCloses(s, FALSE, wasClean)

\* Timers that are due fire, and a closing socket gets closed.
FairCloseSpec ==
  /\ Init
  /\ [][NextOn(CoreMenu, MaxWidePayloads)]_vars
  /\ WF_vars(TimerFires)
  /\ WF_vars(ClosingCompletes)

\* Nodes created with good coordinates and with coordinates the host's
\* setters refuse.
CreateFailMenu ==
  {Command("create-text", [text |-> Str("Hi")]),
   Command("create-text", [x |-> Str("left")]),
   Command("create-rectangle", [x |-> Str("left"), y |-> Num(20)]),
   Command("create-rectangle", [x |-> Num(10), y |-> Str("top")]),
   Command("create-rectangle", [x |-> Num(10), y |-> Num(20)]),
   Command("export-selection", [format |-> Str("PNG")])}

SpecCreateFail == Init /\ [][NextOn(CreateFailMenu, MaxWidePayloads)]_vars

\* create-color-style for a name a style has and for one no style has, with
\* two colors, and with a name and a color the host's setters refuse.
ColorStyleMenu ==
  {Command("create-color-style", [name |-> Str(n), color |-> c]) :
     n \in {"Brand", "Accent"}, c \in {Red, Blue}}
  \cup {Command("create-color-style", [name |-> Num(5), color |-> Red]),
        Command("create-color-style", [name |-> Str("Brand"), color |-> Str("red")]),
        Command("export-selection", [format |-> Str("PNG")])}

\* The same without the two commands the host's setters refuse.
TypedColorStyleMenu ==
  {Command("create-color-style", [name |-> Str(n), color |-> c]) :
     n \in {"Brand", "Accent"}, c \in {Red, Blue}}
  \cup {Command("export-selection", [format |-> Str("PNG")])}

SpecColorStyle == InitOn({RectangleDoc}) /\ [][NextOn(ColorStyleMenu, MaxPayloads)]_vars
SpecTypedColorStyle ==
  InitOn({RectangleDoc}) /\ [][NextOn(TypedColorStyleMenu, MaxPayloads)]_vars

(***************************************************************************)
(* The claims.                                                             *)
(***************************************************************************)
MethodOf(j) == Get(dispatched[j].msg, "method")
IdOf(j) == Get(dispatched[j].msg, "id")
\* The places in `posted` of the responses to the j-th dispatched command.
Answers(j) == {k \in 1..Len(posted) : posted[k].of = j}
Suspended(j) == \E k \in 1..Len(awaiting) : awaiting[k].of = j
HasField(r, f) == Get(r, f) # Undefined
\* The step dispatches a command.
Dispatches == Len(dispatched') = Len(dispatched) + 1
Latest == Len(dispatched')
LatestMethod == Get(dispatched'[Latest].msg, "method")
LatestId == Get(dispatched'[Latest].msg, "id")
LatestParams == Without(dispatched'[Latest].msg, {"method", "id"})

\* C1: every command the dispatcher was called with has exactly one response
\* posted, carrying the command's id, once its handler has returned or thrown
\* (known method or not), and none while the handler is suspended at its
\* await: no command is dropped and none is answered twice.
C1_ExactlyOneResponse ==
  \A j \in 1..Len(dispatched) :
    /\ Cardinality(Answers(j)) = IF Suspended(j) THEN 0 ELSE 1
    /\ \A k \in Answers(j) : posted[k].id = IdOf(j)

\* An unknown command and an export that had to wait have both been answered.
C1_Witness ==
  /\ Len(dispatched) = 2
  /\ Len(posted) = 2
  /\ exportCalls # <<>>
  /\ \E j \in 1..2 : Is(MethodOf(j), "get-selectio")

\* C2: every response posted carries exactly one of `result` and `error`, and
\* an `error` has a string `message`.
C2_ResultXorError ==
  \A i \in 1..Len(toUI) :
    LET r == toUI[i].pluginMessage
    IN /\ HasField(r, "result") # HasField(r, "error")
       /\ HasField(r, "error") => Get(Get(r, "error"), "message").t = "string"

\* The host threw in create-text, and the response is an error.
C2_Witness ==
  \E i \in 1..Len(toUI) :
    /\ HasField(toUI[i].pluginMessage, "error")
    /\ Is(MethodOf(toUI[i].of), "create-text")

\* C3: dispatching a command whose method is none of the case labels posts
\* the error "Unknown command: <method>" and changes nothing in the host:
\* the document is as it was and no export is started.
C3_UnknownCommand ==
  [][(Dispatches /\ ~(LatestMethod.t = "string" /\ LatestMethod.v \in HandlerNames))
       => /\ toUI' = Append(toUI,
                       [pluginMessage |->
                          ErrorResponse(LatestId,
                                        "Unknown command: " \o String(LatestMethod)),
                        of |-> Latest])
          /\ doc' = doc
          /\ exportCalls' = exportCalls
          /\ awaiting' = awaiting]_vars

\* A prefix of a known name, and a command without a method, were refused.
C3_Witness ==
  \E i \in 1..Len(toUI) :
    /\ Is(MethodOf(toUI[i].of), "get-selectio")
    /\ Get(Get(toUI[i].pluginMessage, "error"), "message")
         = Str("Unknown command: get-selectio")
    /\ doc = RectangleDoc

\* The socket the j-th dispatched command arrived on.
SocketOf(j) == inbound[dispatched[j].n].sock
\* Every command that arrived earlier on the socket of the command answered
\* at place k has a response posted before that place.
EarlierAnswered(k) ==
  \A j \in 1..(posted[k].of - 1) :
    SocketOf(j) = SocketOf(posted[k].of) => \E k2 \in 1..(k - 1) : posted[k2].of = j
PostedAt(j) == CHOOSE k \in 1..Len(posted) : posted[k].of = j

\* C4 as claimed: no command is dispatched while a handler is in flight.
C4_OneHandlerInFlight == [][Dispatches => awaiting = <<>>]_vars

\* C4: a handler is in flight (dispatched, its response not posted) only as an
\* export-selection suspended at await exportAsync; every other handler has
\* posted its response by the end of the step that dispatched it.
C4_OnlyExportsInFlight ==
  \A j \in 1..Len(dispatched) :
    Answers(j) = {} => Is(MethodOf(j), "export-selection") /\ Suspended(j)

\* A later command was dispatched and answered while an export is in flight.
C4_Witness ==
  \E j \in 1..Len(dispatched) :
    /\ Suspended(j)
    /\ \E k \in 1..Len(posted) : posted[k].of > j

\* C5 as claimed: the responses to the commands of one socket are posted in
\* the order the commands arrived.
C5_ResponsesInCommandOrder == \A k \in 1..Len(posted) : EarlierAnswered(k)

\* C5: commands are dispatched in the order they arrived on the socket and
\* responses are transmitted in the order they were posted; a response is
\* posted ahead of an earlier command's only when that earlier command is an
\* export-selection.
C5_OnlyExportsOvertaken ==
  /\ \A j \in 1..(Len(dispatched) - 1) : dispatched[j].n < dispatched[j + 1].n
  /\ \A k \in 1..Len(posted) :
       \A j \in 1..(posted[k].of - 1) :
         (\A k2 \in 1..(k - 1) : posted[k2].of # j) => Is(MethodOf(j), "export-selection")
  /\ \A a, b \in 1..Len(wire) :
       a < b => PostedAt(wire[a].of) < PostedAt(wire[b].of)

\* The second command's response went out on the socket before the first's.
C5_Witness ==
  /\ Len(wire) = 2
  /\ wire[1].of = 2
  /\ wire[2].of = 1
  /\ Is(MethodOf(1), "export-selection")

\* C6: at most one reconnect timer is ever pending, and one is pending
\* exactly while the socket that ws holds is CLOSED, that is from each close
\* event (however it came about) to the connect() it schedules.
C6_OneReconnectTimer ==
  /\ timers <= 1
  /\ (timers = 1) <=> (socks[ws] = "CLOSED")

\* A socket that had been open is closed and its reconnect is pending.
C6_Witness ==
  /\ socks[ws] = "CLOSED"
  /\ timers = 1
  /\ \E n \in 1..Len(inbound) : inbound[n].sock = ws

\* C7: the transport is never CLOSED without a reconnect pending, and every
\* CLOSED state is followed by a new connection attempt.
C7_AlwaysReconnects ==
  /\ [](socks[ws] = "CLOSED" => timers > 0)
  /\ (socks[ws] = "CLOSED") ~> (socks[ws] = "CONNECTING")

\* At least the third socket is connecting: the second one had been open.
C7_Witness ==
  /\ socks[ws] = "CONNECTING"
  /\ ws = 1
  /\ \E n \in 1..Len(inbound) : inbound[n].sock = 2

\* The responses window.onmessage has been called with.
Delivered == {posted[k].of : k \in 1..Len(posted)} \ {toUI[i].of : i \in 1..Len(toUI)}

\* C8: a response is transmitted only when the socket is OPEN at the moment
\* window.onmessage gets it; one that comes at any other moment is lost: it
\* is not transmitted then, nor at any later time.
C8_SentOnlyWhileOpen ==
  /\ \A k \in 1..Len(wire) : wire[k].readyState = "OPEN" /\ wire[k].of \notin lost
  /\ \A a, b \in 1..Len(wire) : wire[a].of = wire[b].of => a = b
  /\ Delivered = {wire[k].of : k \in 1..Len(wire)} \cup lost

\* A response was lost, and a later one went out on an open socket.
C8_Witness ==
  \E j \in lost : \E k \in 1..Len(wire) : wire[k].of > j

\* The payloads whose message was forwarded to the plugin.
Forwarded ==
  {toPlugin[i].n : i \in 1..Len(toPlugin)} \cup {dispatched[j].n : j \in 1..Len(dispatched)}
WellFormed == {n \in 1..Len(inbound) : inbound[n].wellFormed}

\* C9: the payloads forwarded to the dispatcher are exactly the well-formed
\* ones, those after a malformed one included; the arrival of a payload,
\* malformed or not, posts no response and leaves the sockets, ws and the
\* timers as they were.
C9_MalformedDropped ==
  [][/\ Forwarded' = WellFormed'
     /\ Len(inbound') > Len(inbound)
          => /\ <<socks, ws, timers>>' = <<socks, ws, timers>>
             /\ <<toUI, posted, wire, lost>>' = <<toUI, posted, wire, lost>>]_vars

\* A malformed payload came, then a well-formed one on the same socket, and
\* that one was answered on the socket.
C9_Witness ==
  /\ Len(inbound) = 2
  /\ ~inbound[1].wellFormed
  /\ inbound[2].wellFormed
  /\ inbound[1].sock = inbound[2].sock
  /\ dispatched # <<>>
  /\ wire # <<>>
  /\ wire[1].sock = inbound[2].sock

\* C10: export-selection dispatched while nothing is selected posts the error
\* "Please select a node to export.", whatever its format and scale, and
\* exportAsync is not called.
C10_ExportNeedsSelection ==
  [][(Dispatches /\ Is(LatestMethod, "export-selection") /\ Len(doc.selection) = 0)
       => /\ toUI' = Append(toUI,
                       [pluginMessage |->
                          ErrorResponse(LatestId, "Please select a node to export."),
                        of |-> Latest])
          /\ exportCalls' = exportCalls
          /\ awaiting' = awaiting
          /\ doc' = doc]_vars

\* The export with no format at all was refused for want of a selection.
C10_Witness ==
  /\ doc = EmptyDoc
  /\ exportCalls = <<>>
  /\ \E i \in 1..Len(toUI) :
       /\ Is(MethodOf(toUI[i].of), "export-selection")
       /\ Get(dispatched[toUI[i].of].msg, "format") = Undefined
       /\ Get(dispatched[toUI[i].of].msg, "scale") = Num(2)
       /\ Get(Get(toUI[i].pluginMessage, "error"), "message")
            = Str("Please select a node to export.")
\* The step dispatches export-selection with a selection whose first node
\* is of a type outside exportableNodeTypes.
DispatchesExportOfOther ==
  /\ Dispatches
  /\ Is(LatestMethod, "export-selection")
  /\ Len(doc.selection) > 0
  /\ doc.nodes[doc.selection[1]].type.v \notin exportableNodeTypes
NotExportable == "Node type " \o doc.nodes[doc.selection[1]].type.v \o " is not exportable."
\* The step posts the error `message` for the command it dispatches, calls
\* no exportAsync and leaves the document as it was.
RefusedWith(message) ==
  /\ toUI' = Append(toUI, [pluginMessage |-> ErrorResponse(LatestId, message),
                           of |-> Latest])
  /\ exportCalls' = exportCalls
  /\ awaiting' = awaiting
  /\ doc' = doc

\* C11 as claimed: export-selection of a node whose type is not exportable
\* posts the error naming the type, whatever the parameters, and calls no
\* exportAsync.
C11_NamesTheType == [][DispatchesExportOfOther => RefusedWith(NotExportable)]_vars

\* C11: export-selection of a node whose type is not exportable calls no
\* exportAsync and posts an error: the one naming the type when a format is
\* given (supported or not), "Format is required for exporting." when none is.
C11_NamesTheTypeGivenFormat ==
  [][DispatchesExportOfOther
       => RefusedWith(IF Truthy(Get(LatestParams, "format")) THEN NotExportable
                      ELSE "Format is required for exporting.")]_vars

\* A slide row selected ahead of a rectangle was refused by its type, with a
\* format the switch does not know.
C11_Witness ==
  /\ doc = RowThenRectangleDoc
  /\ exportCalls = <<>>
  /\ \E i \in 1..Len(toUI) :
       /\ Get(dispatched[toUI[i].of].msg, "format") = Str("gif")
       /\ Get(Get(toUI[i].pluginMessage, "error"), "message")
            = Str("Node type SLIDE_ROW is not exportable.")

\* The responses waiting in toUI to export-selection commands.
ExportResponses ==
  {i \in 1..Len(toUI) : Is(MethodOf(toUI[i].of), "export-selection")}
FormatOf(i) == Get(dispatched[toUI[i].of].msg, "format")
ScaleOf(i) == Get(dispatched[toUI[i].of].msg, "scale")
ExportFormatNames == {"PNG", "JPG", "SVG", "PDF"}

\* C12 as claimed: two exports of the same selection whose formats differ in
\* letter case only, with the same scale, that both succeed carry the same
\* result (the same data, exported with the same settings, the same format
\* and scale); an export with any other format is answered with an error.
C12_CaseInsensitive ==
  /\ \A i1, i2 \in ExportResponses :
       /\ ToUpperCase(FormatOf(i1).v) = ToUpperCase(FormatOf(i2).v)
       /\ ScaleOf(i1) = ScaleOf(i2)
       /\ HasField(toUI[i1].pluginMessage, "result")
       /\ HasField(toUI[i2].pluginMessage, "result")
       => Get(toUI[i1].pluginMessage, "result") = Get(toUI[i2].pluginMessage, "result")
  /\ \A i \in ExportResponses :
       ToUpperCase(FormatOf(i).v) \notin ExportFormatNames
         => HasField(toUI[i].pluginMessage, "error")

\* The paint list a set-...-color command is about.
PaintKey(method) == IF Is(method, "set-fill-color") THEN "fills" ELSE "strokes"
\* The step dispatches set-fill-color or set-stroke-color with a style id, and
\* the first selected node has the paint list.
DispatchesStyle ==
  /\ Dispatches
  /\ Is(LatestMethod, "set-fill-color") \/ Is(LatestMethod, "set-stroke-color")
  /\ Len(doc.selection) > 0
  /\ PaintKey(LatestMethod) \in DOMAIN doc.nodes[doc.selection[1]]
  /\ Truthy(Get(LatestParams, "styleId"))
\* The styles with the id the command names that have paints.
StylesNamed ==
  {s \in 1..Len(doc.styles) :
     /\ doc.styles[s].id = Get(LatestParams, "styleId")
     /\ Len(doc.styles[s].paints.v) > 0}
LatestResponse == toUI'[Len(toUI')].pluginMessage

\* C13: set-fill-color / set-stroke-color with a styleId, on a first selected
\* node that has a fills / strokes list: when the id is that of a style with
\* paints, the node's list becomes exactly the style's paints (nothing of the
\* old list stays) and nothing else changes; when no style has the id or the
\* style has no paints, the response is an error and the document is as it was.
C13_StyleReplacesPaints ==
  [][DispatchesStyle
       => /\ Len(toUI') = Len(toUI) + 1
          /\ IF StylesNamed # {}
             THEN /\ HasField(LatestResponse, "result")
                  /\ \E s \in StylesNamed :
                       doc' = SetProp(doc, doc.selection[1], PaintKey(LatestMethod),
                                      doc.styles[s].paints)
             ELSE /\ HasField(LatestResponse, "error")
                  /\ doc' = doc]_vars

\* The rectangle's two fills gave way to the two paints of the style, though
\* the command carried a value too.
C13_Witness ==
  /\ Len(dispatched) = 1
  /\ Is(MethodOf(1), "set-fill-color")
  /\ HasField(dispatched[1].msg, "value")
  /\ Is(doc.nodes[1].type, "RECTANGLE")
  /\ doc.nodes[1].fills = PaintStyles[1].paints
  /\ doc.nodes[1].strokes = StyledDoc.nodes[1].strokes
  /\ Len(posted) = 1

\* The step dispatches set-fill-color / set-stroke-color with a value and no
\* style id, and the first selected node has the paint list.
DispatchesPaint ==
  /\ Dispatches
  /\ Is(LatestMethod, "set-fill-color") \/ Is(LatestMethod, "set-stroke-color")
  /\ Len(doc.selection) > 0
  /\ PaintKey(LatestMethod) \in DOMAIN doc.nodes[doc.selection[1]]
  /\ ~Truthy(Get(LatestParams, "styleId"))
  /\ ValidPaint(Get(LatestParams, "value"))
\* The node's paint list before and after the step.
OldPaints == doc.nodes[doc.selection[1]][PaintKey(LatestMethod)].v
NewPaints == doc'.nodes[doc.selection[1]][PaintKey(LatestMethod)].v
IsSolid(paint) == Is(Get(paint, "type"), "SOLID")
IsGradient(paint) ==
  Get(paint, "type").t = "string" /\ StartsWithGradient(Get(paint, "type").v)
\* The paint the command puts in the list: a solid paint of the value's colour,
\* or the gradient as given.
PaintSet ==
  LET value == Get(LatestParams, "value")
  IN IF IsSolid(value) THEN SolidPaint(Get(value, "color")) ELSE value
SolidOverGradient ==
  /\ DispatchesPaint
  /\ Is(LatestMethod, "set-fill-color")
  /\ IsSolid(Get(LatestParams, "value"))
  /\ OldPaints # <<>>
  /\ IsGradient(OldPaints[1])

\* C14 as claimed: a solid colour set on fills whose first paint is a gradient
\* takes the gradient's place: the list keeps its length and its tail.
C14_SolidReplacesGradient ==
  [][SolidOverGradient
       => /\ Len(NewPaints) = Len(OldPaints)
          /\ NewPaints[1] = PaintSet
          /\ Tail(NewPaints) = Tail(OldPaints)]_vars

\* C14: a solid colour set on fills whose first paint is a gradient goes in
\* front of it: the list grows by one, its first entry is the new solid paint
\* and the old list, the gradient included, follows unchanged.
C14_SolidGoesBeforeGradient ==
  [][SolidOverGradient => NewPaints = <<PaintSet>> \o OldPaints]_vars

\* The red paint stands before the gradient and the blue paint.
C14_Witness ==
  /\ Len(posted) = 1
  /\ Is(MethodOf(1), "set-fill-color")
  /\ doc.nodes[1].fills =
       Arr(<<SolidPaint(Red), GradientPaint("GRADIENT_LINEAR"), SolidPaint(Blue)>>)

\* C20: a paint set directly by set-fill-color / set-stroke-color takes the
\* place of the first entry exactly when the list has one of the same kind
\* (solid for a solid value, any gradient for a gradient value), and the list
\* keeps its length; otherwise it goes in front and the list grows by one; the
\* entries behind the first are kept, in order, and nothing else changes.
C20_ReplaceOrInsert ==
  [][DispatchesPaint
       => LET value == Get(LatestParams, "value")
              compatible ==
                /\ OldPaints # <<>>
                /\ \/ IsSolid(value) /\ IsSolid(OldPaints[1])
                   \/ IsGradient(value) /\ IsGradient(OldPaints[1])
          IN /\ NewPaints = <<PaintSet>> \o (IF compatible THEN Tail(OldPaints)
                                             ELSE OldPaints)
             /\ doc' = SetProp(doc, doc.selection[1], PaintKey(LatestMethod),
                               Arr(NewPaints))
             /\ HasField(LatestResponse, "result")]_vars

\* A linear gradient took the place of the radial one on the strokes.
C20_Witness ==
  /\ Len(posted) = 1
  /\ Is(MethodOf(1), "set-stroke-color")
  /\ doc.nodes[1].strokes = Arr(<<GradientPaint("GRADIENT_LINEAR"), SolidPaint(Red)>>)
  /\ doc.nodes[1].fills = GradientFirstDoc.nodes[1].fills

\* The step dispatches create-rectangle with numbers for x and y.
DispatchesCreate ==
  /\ Dispatches
  /\ Is(LatestMethod, "create-rectangle")
  /\ Get(LatestParams, "x").t = "number"
  /\ Get(LatestParams, "y").t = "number"
\* The step dispatches get-selection right after such a create-rectangle.
DispatchesGetSelectionAfterCreate ==
  /\ Dispatches
  /\ Latest > 1
  /\ Is(LatestMethod, "get-selection")
  /\ Is(MethodOf(Latest - 1), "create-rectangle")
  /\ Get(dispatched[Latest - 1].msg, "x").t = "number"
  /\ Get(dispatched[Latest - 1].msg, "y").t = "number"

\* C15 as claimed: create-rectangle with numbers x and y answers with the id
\* of a new rectangle that lies at exactly (x, y) and is the whole selection;
\* a get-selection that follows answers with one projection, at (x, y).
C15_CreatedAtXY ==
  [][/\ DispatchesCreate
          => LET n == Len(doc.nodes) + 1
             IN /\ Len(doc'.nodes) = n
                /\ LatestResponse = ResultResponse(LatestId, Obj([id |-> Str(NodeId(n))]))
                /\ doc'.nodes[n].x = Get(LatestParams, "x")
                /\ doc'.nodes[n].y = Get(LatestParams, "y")
                /\ doc'.selection = <<n>>
     /\ DispatchesGetSelectionAfterCreate
          => LET result == Get(LatestResponse, "result")
             IN /\ result.t = "array"
                /\ Len(result.v) = 1
                /\ Get(result.v[1], "x") = Get(dispatched[Latest - 1].msg, "x")
                /\ Get(result.v[1], "y") = Get(dispatched[Latest - 1].msg, "y")]_vars

\* What each command that needs a selection says it needs it for.
SelectionPurpose ==
  [m \in {"set-fill-color", "set-stroke-color", "set-stroke-weight", "set-effect",
          "export-selection"} |->
     CASE m = "set-fill-color" -> "set fill color"
       [] m = "set-stroke-color" -> "set stroke color"
       [] m = "set-stroke-weight" -> "set stroke weight"
       [] m = "set-effect" -> "set effect"
       [] m = "export-selection" -> "export"]

\* C16: set-fill-color, set-stroke-color, set-stroke-weight, set-effect and
\* export-selection, dispatched while nothing is selected, post the error
\* "Please select a node to ..." of the command, whatever their parameters,
\* call no exportAsync and leave the document (nodes, paints, styles,
\* selection) as it was.
C16_NeedsSelection ==
  [][(/\ Dispatches
      /\ LatestMethod.t = "string"
      /\ LatestMethod.v \in DOMAIN SelectionPurpose
      /\ Len(doc.selection) = 0)
       => RefusedWith("Please select a node to " \o SelectionPurpose[LatestMethod.v] \o ".")]_vars

\* A stroke weight of the wrong type was refused for want of a selection, in
\* a document that has nodes and styles.
C16_Witness ==
  /\ doc = UnselectedDoc
  /\ \E i \in 1..Len(toUI) :
       /\ Is(MethodOf(toUI[i].of), "set-stroke-weight")
       /\ Get(dispatched[toUI[i].of].msg, "value") = Str("3")
       /\ Get(Get(toUI[i].pluginMessage, "error"), "message")
            = Str("Please select a node to set stroke weight.")

\* The names in the catalog a response to list-functions carries.
NamesListed(response) ==
  LET functions == Get(Get(response, "result"), "functions")
  IN {Get(functions.v[e], "name") : e \in 1..Len(functions.v)}

\* C17 as claimed: the catalog list-functions answers with has an entry with
\* the name of every other command of the switch, and a command sent under a
\* name of the catalog is not answered "Unknown command".
C17_CatalogMatchesSwitch ==
  \A i \in 1..Len(toUI) :
    /\ Is(MethodOf(toUI[i].of), "list-functions")
         => \A h \in HandlerNames \ {"list-functions"} :
              Str(h) \in NamesListed(toUI[i].pluginMessage)
    /\ (MethodOf(toUI[i].of).t = "string" /\ MethodOf(toUI[i].of).v \in CatalogNames)
         => Get(Get(toUI[i].pluginMessage, "error"), "message")
              # Str("Unknown command: " \o MethodOf(toUI[i].of).v)

\* The required parameters of the catalog's schemas, with the type each
\* schema gives them.
RequiredOf ==
  [m \in {"create-color-style", "export-selection", "set-stroke-weight", "set-effect"} |->
     CASE m = "create-color-style" -> [name |-> "string", color |-> "object"]
       [] m = "export-selection" -> [format |-> "string"]
       [] m = "set-stroke-weight" -> [value |-> "number"]
       [] m = "set-effect" -> [value |-> "object"]]
\* The step dispatches one of these commands with a required parameter
\* missing or of another type.
DispatchesWithoutRequired ==
  /\ Dispatches
  /\ LatestMethod.t = "string"
  /\ LatestMethod.v \in DOMAIN RequiredOf
  /\ \E p \in DOMAIN RequiredOf[LatestMethod.v] :
       Get(LatestParams, p).t # RequiredOf[LatestMethod.v][p]

\* C18 as claimed: a command dispatched without a parameter its schema
\* requires, or with one of the wrong type, is answered with an error and
\* changes nothing in the document; and every command, those after it too,
\* is taken by the dispatcher and answered or left awaiting its export.
C18_RequiredChecked ==
  [][/\ DispatchesWithoutRequired
          => /\ Len(toUI') = Len(toUI) + 1
             /\ HasField(LatestResponse, "error")
             /\ doc' = doc
             /\ exportCalls' = exportCalls
     /\ Dispatches
          => Len(toUI') + Len(awaiting') = Len(toUI) + Len(awaiting) + 1]_vars

\* The projection has the keys ks exactly when the node exposes all of them.
KeysFollow(projection, node, ks) ==
  \A k \in ks : HasField(projection, k) <=> (ks \subseteq DOMAIN node)

\* C19: get-selection-details answers with a result, one projection for each
\* selected node, whatever the nodes lack.  A projection has `layout` exactly
\* when the node exposes layoutMode, `children` exactly when it exposes
\* children, width and height (x and y) when it exposes both, fills when it
\* exposes fills, strokes and strokeWeight when it exposes strokes; a child's
\* projection has neither `children` nor `layout`.
C19_ProjectionFollowsNode ==
  \A i \in 1..Len(toUI) :
    Is(MethodOf(toUI[i].of), "get-selection-details")
      => LET result == Get(toUI[i].pluginMessage, "result")
         IN /\ result.t = "array"
            /\ Len(result.v) = Len(doc.selection)
            /\ \A k \in 1..Len(doc.selection) :
                 LET node == doc.nodes[doc.selection[k]]
                     projection == result.v[k]
                     children == Get(projection, "children")
                 IN /\ Get(projection, "id") = node.id
                    /\ HasField(projection, "layout") <=> ("layoutMode" \in DOMAIN node)
                    /\ HasField(projection, "children") <=> ("children" \in DOMAIN node)
                    /\ KeysFollow(projection, node, {"width", "height"})
                    /\ KeysFollow(projection, node, {"x", "y"})
                    /\ KeysFollow(projection, node, {"fills"})
                    /\ HasField(projection, "strokes") <=> ("strokes" \in DOMAIN node)
                    /\ HasField(projection, "strokeWeight")
                         => {"strokes", "strokeWeight"} \subseteq DOMAIN node
                    /\ HasField(projection, "children")
                         => /\ Len(children.v) = Len(node.children)
                            /\ \A c \in 1..Len(children.v) :
                                 /\ Get(children.v[c], "id") = doc.nodes[node.children[c]].id
                                 /\ ~HasField(children.v[c], "children")
                                 /\ ~HasField(children.v[c], "layout")

\* The frame, the group and the row were projected: the group, itself a
\* child of the frame, with its child and without layout or paints, the row
\* without a size.
C19_Witness ==
  \E i \in 1..Len(toUI) :
    /\ Is(MethodOf(toUI[i].of), "get-selection-details")
    /\ doc = NestedDoc
    /\ LET result == Get(toUI[i].pluginMessage, "result").v
       IN /\ Len(result) = 3
          /\ HasField(result[1], "layout")
          /\ Len(Get(result[1], "children").v) = 2
          /\ Len(Get(result[2], "children").v) = 1
          /\ ~HasField(result[2], "layout")
          /\ ~HasField(result[2], "fills")
          /\ ~HasField(result[3], "width")

\* C21: an error event on a socket that is CONNECTING or OPEN leaves it
\* CLOSING (ws.close() was called), still the socket ws holds, with no timer
\* set by the error itself; a closing socket is never accompanied by a timer,
\* always gets CLOSED with the one reconnect timer of an ordinary close, and
\* a new connection attempt follows.
C21_ErrorForcesClose ==
  /\ [][(\E s \in SocketIds : SocketErrors(s))
          => /\ socks'[ws'] = "CLOSING"
             /\ ws' = ws
             /\ timers' = timers]_vars
  /\ [](socks[ws] = "CLOSING" => timers = 0)
  /\ (socks[ws] = "CLOSING") ~> (socks[ws] = "CLOSED" /\ timers = 1)
  /\ (socks[ws] = "CLOSING") ~> (socks[ws] = "CONNECTING")

\* A socket that had been open and had received a payload met an error and
\* is closing.
C21_Witness ==
  /\ socks[ws] = "CLOSING"
  /\ timers = 0
  /\ \E n \in 1..Len(inbound) : inbound[n].sock = ws

\* C22: when create-rectangle or create-text is answered with an error, the
\* node it created is still in the document: the document has one node
\* more, of the command's type, behind the nodes it had, which are as they
\* were, like the selection and the styles.
C22_CreatedNodeStays ==
  [][(/\ Dispatches
      /\ Is(LatestMethod, "create-rectangle") \/ Is(LatestMethod, "create-text")
      /\ HasField(LatestResponse, "error"))
       => LET n == Len(doc.nodes) + 1
          IN /\ Len(doc'.nodes) = n
             /\ SubSeq(doc'.nodes, 1, n - 1) = doc.nodes
             /\ doc'.nodes[n].id = Str(NodeId(n))
             /\ doc'.nodes[n].type =
                  (IF Is(LatestMethod, "create-text") THEN Str("TEXT") ELSE Str("RECTANGLE"))
             /\ doc'.selection = doc.selection
             /\ doc'.styles = doc.styles]_vars

\* create-text with good parameters was answered with an error, and its text
\* node is in the document, unselected.
C22_Witness ==
  /\ Len(dispatched) = 1
  /\ Is(MethodOf(1), "create-text")
  /\ Get(dispatched[1].msg, "text") = Str("Hi")
  /\ \E i \in 1..Len(toUI) : HasField(toUI[i].pluginMessage, "error")
  /\ Len(doc.nodes) = 1
  /\ Is(doc.nodes[1].type, "TEXT")
  /\ doc.selection = <<>>

DispatchesColorStyle == Dispatches /\ Is(LatestMethod, "create-color-style")
\* The style the latest command's name finds before the step, or 0.
NamedBefore == FindStyleByName(doc, Get(LatestParams, "name"))
\* The local paint styles have pairwise distinct names.
DistinctStyleNames ==
  \A i, j \in 1..Len(doc.styles) : doc.styles[i].name = doc.styles[j].name => i = j

\* C23: starting from paint styles with pairwise distinct names, after any
\* sequence of create-color-style commands no two paint styles share a name;
\* a command adds at most one style and only when no style had its name; and
\* a command whose name a style already has returns that style's id and
\* leaves its paints equal to the single SOLID paint of the command's color.
C23_KeyedByName ==
  /\ []DistinctStyleNames
  /\ [][DispatchesColorStyle
          => /\ Len(doc'.styles) \in {Len(doc.styles), Len(doc.styles) + 1}
             /\ Len(doc'.styles) > Len(doc.styles) => NamedBefore = 0
             /\ NamedBefore # 0
                  => /\ HasField(LatestResponse, "result")
                     /\ Get(Get(LatestResponse, "result"), "styleId")
                          = doc.styles[NamedBefore].id
                     /\ doc'.styles[NamedBefore].paints
                          = Arr(<<SolidPaint(Get(LatestParams, "color"))>>)]_vars

\* C24: a response is transmitted only over the connection its command was
\* received on: every response on the wire went out over the socket its
\* command arrived on, also when that socket closed and connect() opened a
\* new one while the handler was awaiting (two sockets of the pool that
\* differ are two connections).
C24_OnArrivalConnection ==
  \A k \in 1..Len(wire) : wire[k].sock = SocketOf(wire[k].of)
====
